---- MODULE Spec2Model ----
(***************************************************************************)
(* A model of the Solana token-gate bot (src/bot.py, src/config.py).       *)
(*                                                                         *)
(* Two execution contexts share the balance cache and the users file:      *)
(*   "loop"  - the asyncio event loop that runs the Telegram handlers, one *)
(*             update at a time;                                           *)
(*   "sched" - the daemon thread started in main() that runs the scheduled *)
(*             jobs.                                                       *)
(* get_token_balance blocks on up to three HTTP requests, so a call of one *)
(* context overlaps with a call of the other.                              *)
(*                                                                         *)
(* Three specifications share the definitions:                             *)
(*   SpecOracle - get_token_balance, called by both threads in any order;  *)
(*   Spec       - the handlers of the event loop in full, the scheduler    *)
(*                thread seen through what its calls write to the cache;   *)
(*   SpecSweep  - the jobs of the scheduler thread in full, the event loop *)
(*                seen through what it writes to the cache and the file.   *)
(***************************************************************************)
EXTENDS Integers, Sequences, FiniteSets, TLC

\* ------------------------------------------------------------------ constants

MIN_TOKEN_AMOUNT == 50000

CACHE_DURATION == 300

\* The clock of the model takes the instants that cut one cache duration into
\* this many slices.
Slices == 1

\* Telegram user ids, in the order their records appear in the users file.
UserOrder == <<1, 2>>

Users == {UserOrder[i] : i \in DOMAIN UserOrder}

\* The text messages users send: two well-formed addresses, one that is too
\* short and one with a character outside the base58 alphabet.
Texts == {"walletA", "walletB", "short", "zero"}

ADDRESS_LENGTH == 44

\* Python's None as an address.
None == "null"

\* The inputs of is_valid_solana_address: the texts above; the empty string
\* and None; an address with one character more, and one with a line feed
\* after 44 characters; addresses with "I", with "O" and with "l"; one made of
\* the first and last characters of every range of the character class; one
\* with the characters next to the ranges.
Inputs ==
    Texts \cup {"empty", None, "long", "newline", "capitalI", "capitalO",
                "smallL", "edges", "punctuation"}

\* A faulty character class: the letters are not cut at I, O and l.
Base58_all_letters == (49..57) \cup (65..90) \cup (97..122)

\* bot.py:61: the character class [1-9A-HJ-NP-Za-km-z], as code points.
Base58 ==
    (49..57) \cup (65..72) \cup (74..78) \cup (80..90) \cup (97..107)
        \cup (109..122)

\* The length of an input and the code points of its characters.
Shape ==
    [t \in Inputs |->
        CASE t = "walletA" -> [len |-> ADDRESS_LENGTH, chars |-> {55, 71, 107}]
          [] t = "walletB" -> [len |-> ADDRESS_LENGTH, chars |-> {55, 107}]
          [] t = "short" -> [len |-> ADDRESS_LENGTH - 1, chars |-> {55, 71}]
          [] t = "zero" -> [len |-> ADDRESS_LENGTH, chars |-> {55, 48}]
          [] t = "empty" -> [len |-> 0, chars |-> {}]
          [] t = None -> [len |-> 0, chars |-> {}]
          [] t = "long" -> [len |-> ADDRESS_LENGTH + 1, chars |-> {55, 71, 107}]
          [] t = "newline" -> [len |-> ADDRESS_LENGTH + 1, chars |-> {55, 71, 10}]
          [] t = "capitalI" -> [len |-> ADDRESS_LENGTH, chars |-> {55, 73}]
          [] t = "capitalO" -> [len |-> ADDRESS_LENGTH, chars |-> {55, 79}]
          [] t = "smallL" -> [len |-> ADDRESS_LENGTH, chars |-> {55, 108}]
          [] t = "edges" ->
                 [len |-> ADDRESS_LENGTH,
                  chars |-> {49, 57, 65, 72, 74, 78, 80, 90, 97, 107, 109, 122}]
          [] t = "punctuation" ->
                 [len |-> ADDRESS_LENGTH, chars |-> {47, 58, 64, 91, 96, 123}]]

\* A faulty test: the length is tested, the characters are not.
is_valid_solana_address_any_characters(address) ==
    /\ ~(address = None \/ Shape[address].len = 0)
    /\ Shape[address].len = ADDRESS_LENGTH

\* bot.py:56-61: "not address" is true of None and of the empty string, so
\* len() is taken of a string only; the pattern asks for 44 characters of the
\* class from the start of the string to its end.
is_valid_solana_address(address) ==
    /\ ~(address = None \/ Shape[address].len = 0)
    /\ Shape[address].len = ADDRESS_LENGTH
    /\ Shape[address].chars \subseteq Base58

Wallets == {t \in Texts : is_valid_solana_address(t)}

\* users.get(uid, {}).get('wallet') of an absent record.
NoWallet == "none"

\* Python's None as a balance.
NotAvailable == -1

\* The balances a source may report: one short of the threshold, and the threshold.
Balances == {MIN_TOKEN_AMOUNT - 1, MIN_TOKEN_AMOUNT}

Ctx == {"loop", "sched"}

\* What one upstream request can come back with.
\*   ok        HTTP 200, expected schema, the mint is listed with an amount
\*   noaccount HTTP 200, expected schema, no account/entry for the mint
\*   http429   rate limited
\*   httperr   another non-200 status
\*   malformed HTTP 200 without the expected schema
\*   exception the request or the parsing raised
FailKinds == {"http429", "httperr", "malformed", "exception"}

Kinds == {"ok", "noaccount"} \cup FailKinds

TimePoints == {(k * CACHE_DURATION) \div Slices : k \in 0..Slices}

VARIABLES
    users_file,     \* the content of USERS_FILE
    balance_cache,  \* the module-level dict balance_cache
    now,            \* time.time()
    gtb,            \* per context: the frame of its get_token_balance call
    h,              \* the handler the event loop is running
    ev,             \* the frame of check_user_tokens_and_manage_access
    sched,          \* the job the scheduler thread is running
    awaiting        \* per user: context.user_data['awaiting_wallet']

vars == <<users_file, balance_cache, now, gtb, h, ev, sched, awaiting>>

\* ------------------------------------------------------------------ registry

EmptyMap == [u \in Users |-> NoWallet]

\* What open() and json.load find at USERS_FILE (bot.py:40-41).
\*   missing      there is no file
\*   dict         the text is a JSON object; data holds its members
\*   invalid      the text is not JSON: an empty or cut-off file among others
\*   nondict      the text is JSON, but not an object
\*   undecodable  the bytes are not text in the encoding open() reads with
FileKinds == {"missing", "dict", "invalid", "nondict", "undecodable"}

File(kind) == [kind |-> kind, data |-> <<>>]

\* A faulty writer: it stops after the first record it wrote.
RECURSIVE json_dump_first(_, _)
json_dump_first(users, i) ==
    IF i > Len(UserOrder) THEN <<>>
    ELSE IF users[UserOrder[i]] = NoWallet THEN json_dump_first(users, i + 1)
    ELSE <<[key |-> UserOrder[i], value |-> users[UserOrder[i]]]>>

\* bot.py:53, json.dump(users, f, indent=2): the text of the file, one member
\* per record of the dict, the user id as its key, from the i-th user on.
RECURSIVE json_dump(_, _)
json_dump(users, i) ==
    IF i > Len(UserOrder) THEN <<>>
    ELSE IF users[UserOrder[i]] = NoWallet THEN json_dump(users, i + 1)
    ELSE <<[key |-> UserOrder[i], value |-> users[UserOrder[i]]]>>
             \o json_dump(users, i + 1)

\* bot.py:41, json.load(f) of the text of a JSON object: the value of a key
\* is that of its last member among the first i, and a key without a member is
\* not in the dict.
RECURSIVE json_load_key(_, _, _)
json_load_key(text, u, i) ==
    IF i = 0 THEN NoWallet
    ELSE IF text[i].key = u THEN text[i].value
    ELSE json_load_key(text, u, i - 1)

json_load(text) == [u \in Users |-> json_load_key(text, u, Len(text))]

\* bot.py:38-48: what a call of load_users comes to. FileNotFoundError and
\* json.JSONDecodeError are caught and a JSON value that is not a dict is
\* replaced; the UnicodeDecodeError of bytes that are not text is neither.
read_users(file) ==
    [raised |-> file.kind = "undecodable",
     users |-> IF file.kind = "dict" THEN json_load(file.data) ELSE EmptyMap]

\* bot.py:38-48: the dict load_users returns.
load_users(file) == read_users(file).users

\* bot.py:51-53
save_users(data) == [kind |-> "dict", data |-> json_dump(data, 1)]

\* ------------------------------------------------------------------ balance oracle

NoEntry == [bal |-> NotAvailable, time |-> -1]

\* A faulty freshness test: an entry exactly CACHE_DURATION old still counts
\* as fresh.
CacheFresh_inclusive(current_time, cached_time) ==
    current_time - cached_time <= CACHE_DURATION

\* bot.py:77
CacheFresh(current_time, cached_time) ==
    current_time - cached_time < CACHE_DURATION

\* bot.py:98-119: what the Solana RPC response yields.
RpcParse(kind, amount) ==
    CASE kind = "ok" -> [done |-> TRUE, value |-> amount]
      [] kind = "noaccount" -> [done |-> TRUE, value |-> 0]
      [] OTHER -> [done |-> FALSE, value |-> NotAvailable]

\* bot.py:130-145: what the Birdeye response yields.
BirdeyeParse(kind, amount) ==
    CASE kind = "ok" -> [done |-> TRUE, value |-> amount]
      [] OTHER -> [done |-> FALSE, value |-> NotAvailable]

\* bot.py:156-171: what the Solscan response yields.
SolscanParse(kind, amount) ==
    CASE kind = "ok" -> [done |-> TRUE, value |-> amount]
      [] OTHER -> [done |-> FALSE, value |-> NotAvailable]

\* A faulty fallback: the cache is not consulted once the sources have failed.
Fallback_none(cache, key) == NotAvailable

\* bot.py:173-180
Fallback(cache, key) ==
    IF cache[key] # NoEntry THEN cache[key].bal ELSE NotAvailable

\* bot.py:106, 110, 137, 163
Put(cache, key, balance, current_time) ==
    [cache EXCEPT ![key] = [bal |-> balance, time |-> current_time]]

\* The frame of a get_token_balance call. queried, outs, vals, result and how
\* record what the call did: the sources it queried, in order; what each came
\* back with (ok, noaccount, fail); the amount each reported, if any; what it
\* returned; and the way it returned (hit: from a fresh cache entry, fetched:
\* from a source, stale: from the cache after all sources failed, none: None).
IdleCall ==
    [pc |-> "idle", wallet |-> NoWallet, t |-> 0, queried |-> <<>>,
     outs |-> <<>>, vals |-> <<>>, result |-> NotAvailable, how |-> "none"]

\* A faulty entry: the call does not look into the cache.
Enter_uncached(cache, wallet, current_time) ==
    [IdleCall EXCEPT !.pc = "fetch", !.wallet = wallet, !.t = current_time,
                     !.how = "pending"]

\* bot.py:68-79: the call reads the clock and looks the key up in the cache.
Enter(cache, wallet, current_time) ==
    IF cache[wallet] # NoEntry /\ CacheFresh(current_time, cache[wallet].time)
    THEN [IdleCall EXCEPT !.pc = "ret", !.wallet = wallet, !.t = current_time,
                          !.result = cache[wallet].bal, !.how = "hit"]
    ELSE [IdleCall EXCEPT !.pc = "fetch", !.wallet = wallet, !.t = current_time,
                          !.how = "pending"]

\* What the three sources would answer to one call, in the order rpc, birdeye,
\* solscan.
Answer == [kind : Kinds \ {"ok"}, amount : {NotAvailable}]
              \cup [kind : {"ok"}, amount : Balances]

Answers == [1..3 -> Answer]

Class(kind) == IF kind \in FailKinds THEN "fail" ELSE kind

Classes(answers, n) == [i \in 1..n |-> Class(answers[i].kind)]

\* A faulty chain: after the rpc and birdeye have failed the call gives up
\* without asking solscan.
Resolve_two_sources(answers) ==
    LET rpc == RpcParse(answers[1].kind, answers[1].amount)
        birdeye == BirdeyeParse(answers[2].kind, answers[2].amount)
        tried(sources, parsed) ==
            [queried |-> sources, outs |-> Classes(answers, Len(sources)),
             vals |-> [i \in 1..Len(sources) |-> answers[i].amount],
             done |-> parsed.done, value |-> parsed.value]
    IN IF rpc.done THEN tried(<<"rpc">>, rpc)
       ELSE tried(<<"rpc", "birdeye">>, birdeye)

\* bot.py:81-171: the requests of a call that missed the cache, given what the
\* sources answer: the sources queried, what each came back with, and whether
\* one of them yielded a balance.
Resolve(answers) ==
    LET rpc == RpcParse(answers[1].kind, answers[1].amount)
        birdeye == BirdeyeParse(answers[2].kind, answers[2].amount)
        solscan == SolscanParse(answers[3].kind, answers[3].amount)
        tried(sources, parsed) ==
            [queried |-> sources, outs |-> Classes(answers, Len(sources)),
             vals |-> [i \in 1..Len(sources) |-> answers[i].amount],
             done |-> parsed.done, value |-> parsed.value]
    IN IF rpc.done THEN tried(<<"rpc">>, rpc)
       ELSE IF birdeye.done THEN tried(<<"rpc", "birdeye">>, birdeye)
       ELSE tried(<<"rpc", "birdeye", "solscan">>, solscan)

\* The ways the requests of one call can go.
Outcomes == {Resolve(answers) : answers \in Answers}

\* bot.py:81-180: a call that missed the cache runs to its return. The
\* requests touch nothing the two threads share, so the call is one step from
\* its cache lookup to its cache write (or its fallback read).
Fetch(f, cache, o) ==
    LET g == [f EXCEPT !.pc = "ret", !.queried = o.queried, !.outs = o.outs,
                       !.vals = o.vals]
    IN IF o.done
       THEN [frame |-> [g EXCEPT !.result = o.value, !.how = "fetched"],
             cache |-> Put(cache, f.wallet, o.value, f.t)]
       ELSE [frame |-> [g EXCEPT !.result = Fallback(cache, f.wallet),
                                 !.how = IF cache[f.wallet] # NoEntry
                                         THEN "stale" ELSE "none"],
             cache |-> cache]

\* The ways the call of context c can return: a cache hit has returned already.
Returns(c) ==
    IF gtb[c].pc = "ret"
    THEN {[frame |-> gtb[c], cache |-> balance_cache]}
    ELSE {Fetch(gtb[c], balance_cache, o) : o \in Outcomes}

InCall(c) == gtb[c].pc \in {"fetch", "ret"}

\* bot.py:68-79, called directly: either thread asks for the balance of a wallet.
get_token_balance(c, wallet) ==
    /\ gtb[c].pc = "idle"
    /\ gtb' = [gtb EXCEPT ![c] = Enter(balance_cache, wallet, now)]
    /\ UNCHANGED <<users_file, balance_cache, now, h, ev, sched, awaiting>>

\* bot.py:81-180
get_token_balance_fetch(c) ==
    /\ gtb[c].pc = "fetch"
    /\ \E r \in Returns(c) :
            /\ gtb' = [gtb EXCEPT ![c] = r.frame]
            /\ balance_cache' = r.cache
    /\ UNCHANGED <<users_file, now, h, ev, sched, awaiting>>

\* The caller takes the result.
get_token_balance_return(c) ==
    /\ gtb[c].pc = "ret"
    /\ gtb' = [gtb EXCEPT ![c] = IdleCall]
    /\ UNCHANGED <<users_file, balance_cache, now, h, ev, sched, awaiting>>

\* ------------------------------------------------------------------ access evaluation

\* The frame of check_user_tokens_and_manage_access. calls counts its
\* get_token_balance calls; invite and admin are how its create_chat_invite_link
\* and its admin alert went; ops lists the channel-membership calls it issued.
IdleEval ==
    [pc |-> "idle", user |-> 0, wallet |-> NoWallet, balance |-> NotAvailable,
     granted |-> FALSE, why |-> "none", calls |-> 0, invite |-> "none",
     admin |-> "none", ops |-> <<>>]

\* A faulty decision: a balance equal to the threshold is denied.
Decide_strict(balance) ==
    IF balance = NotAvailable THEN "error"
    ELSE IF balance > MIN_TOKEN_AMOUNT THEN "grant" ELSE "deny"

\* A faulty decision: the test for None is missing, so an unavailable balance
\* is compared with the threshold like a number.
Decide_unchecked(balance) ==
    IF balance >= MIN_TOKEN_AMOUNT THEN "grant" ELSE "deny"

\* bot.py:286-303: what the evaluation makes of the balance.
Decide(balance) ==
    IF balance = NotAvailable THEN "error"
    ELSE IF balance >= MIN_TOKEN_AMOUNT THEN "grant" ELSE "deny"

\* A faulty entry: the test for a missing wallet is gone, so the balance of
\* no wallet is asked for, which no source can give.
EvalEnter_unguarded(u) ==
    LET wallet == load_users(users_file)[u]
    IN IF wallet = NoWallet
       THEN /\ ev' = [IdleEval EXCEPT !.pc = "ret", !.user = u, !.calls = 1,
                                      !.why = "Error checking balance"]
            /\ UNCHANGED gtb
       ELSE /\ ev' = [IdleEval EXCEPT !.pc = "balance", !.user = u,
                                      !.wallet = wallet, !.calls = 1]
            /\ gtb' = [gtb EXCEPT !["loop"] = Enter(balance_cache, wallet, now)]

\* bot.py:274-284: the evaluation loads the registry and, for a user with a
\* wallet, calls get_token_balance.
EvalEnter(u) ==
    LET wallet == load_users(users_file)[u]
    IN IF wallet = NoWallet
       THEN /\ ev' = [IdleEval EXCEPT !.pc = "ret", !.user = u,
                                      !.why = "No wallet found"]
            /\ UNCHANGED gtb
       ELSE /\ ev' = [IdleEval EXCEPT !.pc = "balance", !.user = u,
                                      !.wallet = wallet, !.calls = 1]
            /\ gtb' = [gtb EXCEPT !["loop"] = Enter(balance_cache, wallet, now)]

\* bot.py:314-325: ban_chat_member, then unban_chat_member, in one try block.
Removal(ban, unban) ==
    IF ban = "ok" THEN <<"ban_ok", "unban_" \o unban>> ELSE <<"ban_raised">>

\* A faulty grant: without the invite link the evaluation returns False.
Granted_with_link(link) == link = "ok"

\* bot.py:293-302: the evaluation returns True with the invite link, and True
\* when create_chat_invite_link raised.
Granted(link) == TRUE

\* bot.py:284-326: the balance call returns. The grant path creates an invite
\* link; the deny path alerts the admin, then bans and unbans the user; each
\* of these Telegram calls may raise, which the code catches.
check_user_tokens_and_manage_access ==
    /\ ev.pc = "balance"
    /\ InCall("loop")
    /\ \E r \in Returns("loop") :
         LET balance == r.frame.result
             d == Decide(balance)
             e == [ev EXCEPT !.pc = "ret", !.balance = balance]
         IN /\ balance_cache' = r.cache
            /\ CASE d = "error" ->
                      ev' = [e EXCEPT !.why = "Error checking balance"]
                 [] d = "grant" ->
                      \E link \in {"ok", "raised"} :
                         ev' = [e EXCEPT !.granted = Granted(link),
                                         !.invite = link,
                                         !.why = "Access granted"]
                 [] d = "deny" ->
                      \E alert \in {"ok", "raised"},
                         ban \in {"ok", "raised"},
                         unban \in {"ok", "raised"} :
                           ev' = [e EXCEPT !.admin = alert,
                                           !.why = "Insufficient tokens",
                                           !.ops = Removal(ban, unban)]
    /\ gtb' = [gtb EXCEPT !["loop"] = IdleCall]
    /\ UNCHANGED <<users_file, now, h, sched, awaiting>>

\* ------------------------------------------------------------------ handlers

\* The handler the event loop is running. out is what it tells the user; admin
\* is how its own message to the admin went (the evaluation's alert is
\* ev.admin); bal is the balance it fetched itself; text is the message text;
\* users is the registry snapshot a registration holds until it writes.
IdleHandler ==
    [pc |-> "idle", kind |-> "none", user |-> 0, text |-> "none",
     bal |-> NotAvailable, out |-> "none", admin |-> "none",
     users |-> EmptyMap]

Handler(kind, u) == [IdleHandler EXCEPT !.kind = kind, !.user = u]

\* bot.py:634, 641
Verdict(balance) ==
    IF balance >= MIN_TOKEN_AMOUNT THEN "sufficient" ELSE "insufficient"

\* bot.py:572-605 (/verify)
verify(u) ==
    /\ h.pc = "idle"
    /\ LET wallet == load_users(users_file)[u]
       IN IF wallet = NoWallet
          THEN /\ h' = [Handler("verify", u) EXCEPT !.pc = "return",
                                                    !.out = "no_wallet"]
               /\ UNCHANGED gtb
          ELSE /\ h' = [Handler("verify", u) EXCEPT !.pc = "verify_balance"]
               /\ gtb' = [gtb EXCEPT !["loop"] = Enter(balance_cache, wallet, now)]
    /\ UNCHANGED <<users_file, balance_cache, now, ev, sched, awaiting>>

\* bot.py:605-651
verify_balance ==
    /\ h.pc = "verify_balance"
    /\ InCall("loop")
    /\ \E r \in Returns("loop") :
         LET balance == r.frame.result
         IN /\ balance_cache' = r.cache
            /\ h' = [h EXCEPT !.pc = "return", !.bal = balance,
                              !.out = IF balance = NotAvailable THEN "error"
                                      ELSE Verdict(balance)]
    /\ gtb' = [gtb EXCEPT !["loop"] = IdleCall]
    /\ UNCHANGED <<users_file, now, ev, sched, awaiting>>

\* bot.py:386-408 (/vip, through vip_command, bot.py:654-660)
handle_vip_request(u) ==
    /\ h.pc = "idle"
    /\ IF load_users(users_file)[u] = NoWallet
       THEN /\ h' = [Handler("vip", u) EXCEPT !.pc = "return",
                                              !.out = "register_first"]
            /\ UNCHANGED <<gtb, ev>>
       ELSE /\ h' = [Handler("vip", u) EXCEPT !.pc = "evaluation"]
            /\ EvalEnter(u)
    /\ UNCHANGED <<users_file, balance_cache, now, sched, awaiting>>

\* bot.py:329-351: user u has just joined the VIP channel.
handle_chat_member_update(u) ==
    /\ h.pc = "idle"
    /\ h' = [Handler("join", u) EXCEPT !.pc = "evaluation"]
    /\ EvalEnter(u)
    /\ UNCHANGED <<users_file, balance_cache, now, sched, awaiting>>

\* A faulty verification: the test for None is missing.
verify_wallet_and_tokens_unchecked(wallet_address, balance) ==
    is_valid_solana_address(wallet_address)

\* bot.py:259-267: the address check and the balance fetch of the registration.
verify_wallet_and_tokens(wallet_address, balance) ==
    IF ~is_valid_solana_address(wallet_address) THEN FALSE
    ELSE balance # NotAvailable

\* bot.py:500-529 and 567-569: a text message. It is taken as a wallet address
\* only while the sender is awaiting one.
handle_message(u, text) ==
    /\ h.pc = "idle"
    /\ IF ~awaiting[u]
       THEN /\ h' = [Handler("message", u) EXCEPT !.pc = "return", !.text = text,
                                                  !.out = "ignored"]
            /\ UNCHANGED gtb
       ELSE IF ~is_valid_solana_address(text)
       THEN /\ h' = [Handler("message", u) EXCEPT !.pc = "return", !.text = text,
                                                  !.out = "invalid"]
            /\ UNCHANGED gtb
       ELSE /\ h' = [Handler("message", u) EXCEPT
                          !.pc = "message_verify", !.text = text,
                          !.users = load_users(users_file)]
            /\ gtb' = [gtb EXCEPT !["loop"] = Enter(balance_cache, text, now)]
    /\ UNCHANGED <<users_file, balance_cache, now, ev, sched, awaiting>>

\* A faulty registration: the record is put into a new dict instead of the
\* snapshot.
Registered_alone(users, u, wallet) == [EmptyMap EXCEPT ![u] = wallet]

\* bot.py:532: users[user_id] = {'wallet': wallet}
Registered(users, u, wallet) == [users EXCEPT ![u] = wallet]

\* bot.py:529-538 and 561-566: the registry snapshot loaded at line 509 is
\* written back with the sender's record replaced.
handle_message_verified ==
    /\ h.pc = "message_verify"
    /\ InCall("loop")
    /\ \E r \in Returns("loop") :
         LET balance == r.frame.result
         IN /\ balance_cache' = r.cache
            /\ IF verify_wallet_and_tokens(h.text, balance)
               THEN /\ users_file' =
                           save_users(Registered(h.users, h.user, h.text))
                    /\ awaiting' = [awaiting EXCEPT ![h.user] = FALSE]
                    /\ h' = [h EXCEPT !.pc = "access", !.bal = balance,
                                      !.users = EmptyMap]
               ELSE /\ h' = [h EXCEPT !.pc = "return", !.out = "verify_failed",
                                      !.users = EmptyMap]
                    /\ UNCHANGED <<users_file, awaiting>>
    /\ gtb' = [gtb EXCEPT !["loop"] = IdleCall]
    /\ UNCHANGED <<now, ev, sched>>

\* bot.py:777-812 (/checkme)
checkme_command(u) ==
    /\ h.pc = "idle"
    /\ LET wallet == load_users(users_file)[u]
       IN IF wallet = NoWallet
          THEN /\ h' = [Handler("checkme", u) EXCEPT !.pc = "return",
                                                     !.out = "no_wallet"]
               /\ UNCHANGED gtb
          ELSE /\ h' = [Handler("checkme", u) EXCEPT !.pc = "checkme_balance"]
               /\ gtb' = [gtb EXCEPT !["loop"] = Enter(balance_cache, wallet, now)]
    /\ UNCHANGED <<users_file, balance_cache, now, ev, sched, awaiting>>

\* bot.py:812-822
checkme_command_balance ==
    /\ h.pc = "checkme_balance"
    /\ InCall("loop")
    /\ \E r \in Returns("loop") :
         LET balance == r.frame.result
         IN /\ balance_cache' = r.cache
            /\ h' = IF balance = NotAvailable
                    THEN [h EXCEPT !.pc = "return", !.out = "error"]
                    ELSE [h EXCEPT !.pc = "access", !.bal = balance]
    /\ gtb' = [gtb EXCEPT !["loop"] = IdleCall]
    /\ UNCHANGED <<users_file, now, ev, sched, awaiting>>

\* bot.py:541-543 and 825-827: the handler calls the evaluation.
handler_access ==
    /\ h.pc = "access"
    /\ h' = [h EXCEPT !.pc = "evaluation"]
    /\ EvalEnter(h.user)
    /\ UNCHANGED <<users_file, balance_cache, now, sched, awaiting>>

\* bot.py:353-381, 410-423, 545-560, 829-869: the evaluation has returned and
\* the handler reports. Only handle_chat_member_update writes to the admin; its
\* send may raise. The reply of handle_message (bot.py:545-560) is outside any
\* try block: when it raises, the handler ends without having told the user.
handler_report ==
    /\ h.pc = "evaluation"
    /\ ev.pc = "ret"
    /\ \E sent \in {"ok", "raised"}, reply \in {"ok", "raised"} :
         h' = [h EXCEPT !.pc = "return",
                        !.admin = IF h.kind = "join" THEN sent ELSE "none",
                        !.out = IF h.kind = "message" /\ reply = "raised"
                                THEN "undelivered"
                                ELSE IF ev.granted THEN "granted" ELSE "denied"]
    /\ UNCHANGED <<users_file, balance_cache, now, gtb, ev, sched, awaiting>>

\* bot.py:426-497 (/start)
start(u) ==
    /\ h.pc = "idle"
    /\ IF load_users(users_file)[u] # NoWallet
       THEN /\ h' = [Handler("start", u) EXCEPT !.pc = "return",
                                                !.out = "wallet_registered"]
            /\ UNCHANGED awaiting
       ELSE /\ h' = [Handler("start", u) EXCEPT !.pc = "return",
                                                !.out = "connect_wallet"]
            /\ awaiting' = [awaiting EXCEPT ![u] = TRUE]
    /\ UNCHANGED <<users_file, balance_cache, now, gtb, ev, sched>>

\* A faulty /change: the prompt is sent but the flag is not set.
change_wallet_without_flag(u) ==
    /\ h.pc = "idle"
    /\ h' = [Handler("change", u) EXCEPT !.pc = "return", !.out = "send_wallet"]
    /\ UNCHANGED <<users_file, balance_cache, now, gtb, ev, sched, awaiting>>

\* bot.py:663-692 (/change)
change_wallet(u) ==
    /\ h.pc = "idle"
    /\ h' = [Handler("change", u) EXCEPT !.pc = "return", !.out = "send_wallet"]
    /\ awaiting' = [awaiting EXCEPT ![u] = TRUE]
    /\ UNCHANGED <<users_file, balance_cache, now, gtb, ev, sched>>

\* bot.py:695-719: the connect_wallet and manual_entry buttons.
button_callback(u) ==
    /\ h.pc = "idle"
    /\ h' = [Handler("button", u) EXCEPT !.pc = "return", !.out = "send_wallet"]
    /\ awaiting' = [awaiting EXCEPT ![u] = TRUE]
    /\ UNCHANGED <<users_file, balance_cache, now, gtb, ev, sched>>

\* The handler's last reply is sent and the event loop takes the next update.
handler_return ==
    /\ h.pc = "return"
    /\ h' = IdleHandler
    /\ ev' = IdleEval
    /\ UNCHANGED <<users_file, balance_cache, now, gtb, sched, awaiting>>

\* ------------------------------------------------------------------ scheduler

\* The job the scheduler thread runs. todo: the records of the loaded registry
\* the sweep has still to visit; cur: the user it is at; bal: the balance it
\* got for that user; coros: the users for whom it created a send_message
\* coroutine (bot.py:885); effects: what the thread has made Telegram do in
\* this job, a message to a user, an alert to the admin or a ban.
IdleSched ==
    [pc |-> "idle", todo |-> <<>>, cur |-> 0, bal |-> NotAvailable,
     coros |-> {}, effects |-> {}]

Effect(kind, u) == [kind |-> kind, user |-> u]

\* A record of the users file that is not a JSON object.
Malformed == "malformed"

\* bot.py:876-879: the records in the order of the file; a record without a
\* wallet is passed over.
RECURSIVE Items(_, _)
Items(users, i) ==
    IF i > Len(UserOrder) THEN <<>>
    ELSE IF users[UserOrder[i]] = NoWallet THEN Items(users, i + 1)
    ELSE <<[user |-> UserOrder[i], wallet |-> users[UserOrder[i]]]>>
             \o Items(users, i + 1)

\* bot.py:874-875, run from run_scheduler (bot.py:955-962)
daily_check_job ==
    /\ sched.pc = "idle"
    /\ sched' = [IdleSched EXCEPT !.pc = "sweep",
                                  !.todo = Items(load_users(users_file), 1)]
    /\ UNCHANGED <<users_file, balance_cache, now, gtb, h, ev, awaiting>>

\* bot.py:876-880: data.get('wallet') raises AttributeError on a record that is
\* not an object; nothing catches it in the job or in run_scheduler
\* (bot.py:960-962), so the scheduler thread ends.
daily_check_job_next ==
    /\ sched.pc = "sweep"
    /\ sched.todo # <<>>
    /\ IF Head(sched.todo).wallet = Malformed
       THEN /\ sched' = [sched EXCEPT !.pc = "dead", !.todo = Tail(sched.todo),
                                      !.cur = Head(sched.todo).user,
                                      !.bal = NotAvailable]
            /\ UNCHANGED gtb
       ELSE /\ sched' = [sched EXCEPT !.pc = "sweep_balance",
                                      !.todo = Tail(sched.todo),
                                      !.cur = Head(sched.todo).user,
                                      !.bal = NotAvailable]
            /\ gtb' = [gtb EXCEPT !["sched"] =
                          Enter(balance_cache, Head(sched.todo).wallet, now)]
    /\ UNCHANGED <<users_file, balance_cache, now, h, ev, awaiting>>

\* bot.py:883
Short(balance) == balance # NotAvailable /\ balance < MIN_TOKEN_AMOUNT

\* A faulty job: the test for None is missing.
daily_check_job_user_unchecked(s, balance) ==
    [s EXCEPT !.pc = "sweep", !.bal = balance,
              !.coros = IF balance < MIN_TOKEN_AMOUNT
                        THEN @ \cup {s.cur} ELSE @]

\* A faulty job: a user below the threshold is banned from the channel.
daily_check_job_user_removing(s, balance) ==
    [s EXCEPT !.pc = "sweep", !.bal = balance,
              !.coros = IF Short(balance) THEN @ \cup {s.cur} ELSE @,
              !.effects = IF Short(balance)
                          THEN @ \cup {Effect("ban", s.cur)} ELSE @]

\* bot.py:881-897: what the job does with the balance of the user it is at.
\* app.bot.send_message is a coroutine function: the job calls it without
\* awaiting it, which creates a coroutine that never runs, so no message is
\* sent. The job makes no other Telegram call.
daily_check_job_user(s, balance) ==
    [s EXCEPT !.pc = "sweep", !.bal = balance,
              !.coros = IF Short(balance) THEN @ \cup {s.cur} ELSE @]

\* bot.py:880-897
daily_check_job_balance ==
    /\ sched.pc = "sweep_balance"
    /\ InCall("sched")
    /\ \E r \in Returns("sched") :
            /\ balance_cache' = r.cache
            /\ sched' = daily_check_job_user(sched, r.frame.result)
    /\ gtb' = [gtb EXCEPT !["sched"] = IdleCall]
    /\ UNCHANGED <<users_file, now, h, ev, awaiting>>

\* The job returns to schedule.run_pending.
daily_check_job_return ==
    /\ sched.pc = "sweep"
    /\ sched.todo = <<>>
    /\ sched' = IdleSched
    /\ UNCHANGED <<users_file, balance_cache, now, gtb, h, ev, awaiting>>

\* bot.py:959: check_vip_channel_members is a coroutine function; the
\* scheduler calls it as a plain job, which creates the coroutine object.
run_scheduler_audit ==
    /\ sched.pc = "idle"
    /\ sched' = [IdleSched EXCEPT !.pc = "audit_coroutine"]
    /\ UNCHANGED <<users_file, balance_cache, now, gtb, h, ev, awaiting>>

\* bot.py:961: nothing awaits the coroutine, so its body (bot.py:900-950) does
\* not run.
run_scheduler_audit_dropped ==
    /\ sched.pc = "audit_coroutine"
    /\ sched' = IdleSched
    /\ UNCHANGED <<users_file, balance_cache, now, gtb, h, ev, awaiting>>

\* ------------------------------------------------------------------ the other thread

\* bot.py:106, 110, 137, 163: a get_token_balance call of the other thread
\* that read the clock at current_time writes what it fetched.
other_thread_get_token_balance ==
    /\ \E wallet \in Wallets, balance \in Balances \cup {0},
          current_time \in TimePoints :
            /\ current_time <= now
            /\ balance_cache' = Put(balance_cache, wallet, balance, current_time)
    /\ UNCHANGED <<users_file, now, gtb, h, ev, sched, awaiting>>

\* bot.py:509, 532-533 and 52: the event loop registers a wallet while a job
\* runs. save_users opens the file for writing, which empties it; h is the
\* frame of the registration, with the registry it loaded.
other_thread_save_users ==
    /\ h.pc = "idle"
    /\ \E u \in Users, wallet \in Wallets :
         h' = [Handler("message", u) EXCEPT !.pc = "save_users",
                                            !.text = wallet,
                                            !.users = load_users(users_file)]
    /\ users_file' = File("invalid")
    /\ UNCHANGED <<balance_cache, now, gtb, ev, sched, awaiting>>

\* bot.py:53: json.dump writes the registry and the file is closed.
other_thread_save_users_dump ==
    /\ h.pc = "save_users"
    /\ users_file' = save_users(Registered(h.users, h.user, h.text))
    /\ h' = IdleHandler
    /\ UNCHANGED <<balance_cache, now, gtb, ev, sched, awaiting>>

\* ------------------------------------------------------------------ clock

Tick ==
    /\ \E t \in TimePoints : t > now /\ now' = t
    /\ UNCHANGED <<users_file, balance_cache, gtb, h, ev, sched, awaiting>>

\* ------------------------------------------------------------------ specifications

Registries == [Users -> Wallets \cup {NoWallet}]

\* The process starts with an empty cache and no handler running; the users
\* file is missing or holds the registry of an earlier run.
Init ==
    /\ users_file \in {File("missing")}
                      \cup {save_users(r) : r \in Registries}
    /\ balance_cache = [w \in Wallets |-> NoEntry]
    /\ now = 0
    /\ gtb = [c \in Ctx |-> IdleCall]
    /\ h = IdleHandler
    /\ ev = IdleEval
    /\ sched = IdleSched
    /\ awaiting = [u \in Users |-> FALSE]

\* The event loop: the handlers, one update at a time.
Next ==
    \/ check_user_tokens_and_manage_access
    \/ \E u \in Users : verify(u)
    \/ verify_balance
    \/ \E u \in Users : handle_vip_request(u)
    \/ \E u \in Users : handle_chat_member_update(u)
    \/ \E u \in Users, text \in Texts : handle_message(u, text)
    \/ handle_message_verified
    \/ \E u \in Users : checkme_command(u)
    \/ checkme_command_balance
    \/ handler_access
    \/ handler_report
    \/ \E u \in Users : start(u)
    \/ \E u \in Users : change_wallet(u)
    \/ \E u \in Users : button_callback(u)
    \/ handler_return
    \/ other_thread_get_token_balance
    \/ Tick

Spec == Init /\ [][Next]_vars

\* The scheduler thread: the two jobs of run_scheduler.
NextSweep ==
    \/ daily_check_job
    \/ daily_check_job_next
    \/ daily_check_job_balance
    \/ daily_check_job_return
    \/ run_scheduler_audit
    \/ run_scheduler_audit_dropped
    \/ other_thread_get_token_balance
    \/ other_thread_save_users
    \/ other_thread_save_users_dump
    \/ Tick

\* The users file may hold records that are not objects: load_users checks
\* only that the file holds a JSON object (bot.py:42-44).
InitSweep ==
    /\ users_file \in {File("missing")}
                      \cup {save_users(r) :
                               r \in [Users -> Wallets \cup {NoWallet, Malformed}]}
    /\ balance_cache = [w \in Wallets |-> NoEntry]
    /\ now = 0
    /\ gtb = [c \in Ctx |-> IdleCall]
    /\ h = IdleHandler
    /\ ev = IdleEval
    /\ sched = IdleSched
    /\ awaiting = [u \in Users |-> FALSE]

SpecSweep == InitSweep /\ [][NextSweep]_vars

\* bot.py:52-53 and 967-992: open(USERS_FILE, 'w') empties the file before
\* json.dump writes it. The process is stopped in between, while a registration
\* is saving, and started again: main() begins with an empty cache, no handler
\* and no user_data, and the file is as the stopped write left it.
save_users_interrupted ==
    /\ h.pc = "message_verify"
    /\ InCall("loop")
    /\ \E r \in Returns("loop") : verify_wallet_and_tokens(h.text, r.frame.result)
    /\ users_file' = File("invalid")
    /\ balance_cache' = [w \in Wallets |-> NoEntry]
    /\ gtb' = [c \in Ctx |-> IdleCall]
    /\ h' = IdleHandler
    /\ ev' = IdleEval
    /\ awaiting' = [u \in Users |-> FALSE]
    /\ UNCHANGED <<now, sched>>

\* The event loop over a users file that may be unreadable: left so by an
\* earlier run, or by a write of this one that was stopped.
InitStore ==
    /\ users_file \in {File("missing"), File("invalid"), File("nondict")}
                      \cup {save_users(r) : r \in Registries}
    /\ balance_cache = [w \in Wallets |-> NoEntry]
    /\ now = 0
    /\ gtb = [c \in Ctx |-> IdleCall]
    /\ h = IdleHandler
    /\ ev = IdleEval
    /\ sched = IdleSched
    /\ awaiting = [u \in Users |-> FALSE]

NextStore ==
    \/ Next
    \/ save_users_interrupted

SpecStore == InitStore /\ [][NextStore]_vars

\* The balance oracle: each thread calls get_token_balance for any wallet at
\* any time.
InitOracle ==
    /\ Init
    /\ users_file.kind = "missing"

NextOracle ==
    \/ \E c \in Ctx, w \in Wallets : get_token_balance(c, w)
    \/ \E c \in Ctx : get_token_balance_fetch(c)
    \/ \E c \in Ctx : get_token_balance_return(c)
    \/ Tick

SpecOracle == InitOracle /\ [][NextOracle]_vars

\* The functions of the registry and the address test, called one at a time
\* on any users file, any registry and any input. h is the frame of the call:
\* kind is the function, text and users its arguments or its result, out how
\* it came back.
load_users_call ==
    /\ h.pc = "idle" \/ h.kind = "save_users"
    /\ LET read == read_users(users_file)
       IN h' = [IdleHandler EXCEPT
                    !.pc = IF h.kind = "save_users" THEN "round_trip"
                           ELSE "called",
                    !.kind = "load_users",
                    !.out = IF read.raised THEN "raised" ELSE "returned",
                    !.users = read.users]
    /\ UNCHANGED <<users_file, balance_cache, now, gtb, ev, sched, awaiting>>

save_users_call(users) ==
    /\ h.pc = "idle"
    /\ users_file' = save_users(users)
    /\ h' = [IdleHandler EXCEPT !.pc = "called", !.kind = "save_users",
                                !.users = users]
    /\ UNCHANGED <<balance_cache, now, gtb, ev, sched, awaiting>>

is_valid_solana_address_call(address) ==
    /\ h.pc = "idle"
    /\ h' = [IdleHandler EXCEPT
                 !.pc = "called", !.kind = "is_valid_solana_address",
                 !.text = address,
                 !.out = IF is_valid_solana_address(address) THEN "True"
                         ELSE "False"]
    /\ UNCHANGED <<users_file, balance_cache, now, gtb, ev, sched, awaiting>>

call_return ==
    /\ h.pc \in {"called", "round_trip"}
    /\ h' = IdleHandler
    /\ UNCHANGED <<users_file, balance_cache, now, gtb, ev, sched, awaiting>>

InitFunctions ==
    /\ users_file \in {File(kind) : kind \in FileKinds \ {"dict"}}
                      \cup {save_users(r) : r \in Registries}
    /\ balance_cache = [w \in Wallets |-> NoEntry]
    /\ now = 0
    /\ gtb = [c \in Ctx |-> IdleCall]
    /\ h = IdleHandler
    /\ ev = IdleEval
    /\ sched = IdleSched
    /\ awaiting = [u \in Users |-> FALSE]

NextFunctions ==
    \/ load_users_call
    \/ \E users \in Registries : save_users_call(users)
    \/ \E address \in Inputs : is_valid_solana_address_call(address)
    \/ call_return

SpecFunctions == InitFunctions /\ [][NextFunctions]_vars

\* ------------------------------------------------------------------ properties

\* The step in which context c enters get_token_balance (bot.py:68-79).
EnterStep(c) == gtb[c].pc = "idle" /\ gtb'[c].pc # "idle"

\* The step in which the call of context c, having missed the cache, runs its
\* requests and returns (bot.py:81-180).
FetchStep(c) == gtb[c].pc = "fetch" /\ gtb'[c].pc = "ret"

\* The sources in the order of the code: bot.py:83, 123, 149.
Sources == <<"rpc", "birdeye", "solscan">>

AllFailed == <<"fail", "fail", "fail">>

\* C1, as stated: the evaluation never issues a ban of the user it evaluates,
\* whatever the balance. (Refuted: the deny path calls ban_chat_member.)
C1_evaluation_never_bans ==
    \A i \in DOMAIN ev.ops : ev.ops[i] \notin {"ban_ok", "ban_raised"}

\* C2: for a user with a registered wallet and an available balance, the
\* evaluation returns granted exactly when the balance is at least
\* MIN_TOKEN_AMOUNT, however the invite link and the admin alert went.
C2_granted_iff_threshold ==
    (ev.pc = "ret" /\ ev.wallet # NoWallet /\ ev.balance # NotAvailable)
        => (ev.granted <=> ev.balance >= MIN_TOKEN_AMOUNT)

\* A balance equal to the threshold is granted although the invite link could
\* not be created.
C2_witness ==
    /\ ev.pc = "ret"
    /\ ev.balance = MIN_TOKEN_AMOUNT
    /\ ev.granted
    /\ ev.invite = "raised"

\* C3: when get_token_balance returns None for a registered user, the
\* evaluation returns denied with the error rationale and issues no ban and no
\* unban, and the handler that called it reports the denial and nothing else.
C3_unavailable_denies_without_removal ==
    (ev.pc = "ret" /\ ev.wallet # NoWallet /\ ev.balance = NotAvailable)
        => /\ ~ev.granted
           /\ ev.why = "Error checking balance"
           /\ ev.ops = <<>>
           /\ ev.invite = "none"
           /\ (h.pc = "return" => h.out = "denied")

\* A user who joined the channel is evaluated while no balance is available,
\* and the handler has reported.
C3_witness ==
    /\ ev.pc = "ret"
    /\ ev.wallet # NoWallet
    /\ ev.balance = NotAvailable
    /\ h.pc = "return"
    /\ h.kind = "join"

\* C4: the evaluation of a user without a registered wallet returns denied
\* with the no-wallet rationale in the step it starts, calls get_token_balance
\* zero times and leaves the balance cache as it is.
C4_no_wallet_no_call ==
    [][(/\ ev.pc = "idle"
        /\ ev'.pc # "idle"
        /\ load_users(users_file)[ev'.user] = NoWallet)
       => /\ ev'.pc = "ret"
          /\ ~ev'.granted
          /\ ev'.why = "No wallet found"
          /\ ev'.calls = 0
          /\ ev'.ops = <<>>
          /\ gtb' = gtb
          /\ balance_cache' = balance_cache]_vars

\* An unregistered user joined the channel and was evaluated.
C4_witness ==
    /\ ev.pc = "ret"
    /\ ev.why = "No wallet found"
    /\ ev.calls = 0
    /\ h.kind = "join"
    /\ load_users(users_file)[ev.user] = NoWallet

\* C5, as stated: a call that missed the cache queries the sources in the
\* order rpc, birdeye, solscan, each at most once, and every source before the
\* last one it queried had failed: none is queried after a source that gave a
\* well-formed answer. (Refuted: see C6.)
C5_fixed_order_stop_at_first_answer ==
    \A c \in Ctx :
        gtb[c].pc = "ret" =>
            /\ Len(gtb[c].queried) <= Len(Sources)
            /\ gtb[c].queried = SubSeq(Sources, 1, Len(gtb[c].queried))
            /\ \A i \in 1..(Len(gtb[c].queried) - 1) : gtb[c].outs[i] = "fail"

\* C6, as stated: whichever source answers that the wallet holds no account
\* for the mint, the call returns 0, caches 0 under its own stamp and queries
\* no later source. (Refuted: only the rpc branch does.)
C6_no_account_is_zero ==
    [][\A c \in Ctx :
         FetchStep(c) =>
            \A i \in DOMAIN gtb'[c].outs :
                gtb'[c].outs[i] = "noaccount" =>
                    /\ gtb'[c].result = 0
                    /\ Len(gtb'[c].queried) = i
                    /\ balance_cache'[gtb[c].wallet] =
                           [bal |-> 0, time |-> gtb[c].t]]_vars

\* C7: when all three sources fail and the cache holds an entry for the key,
\* of whatever age, the call returns the balance of that entry, which is not
\* None, and the cache stays as it is.
C7_stale_fallback ==
    [][\A c \in Ctx :
         (/\ FetchStep(c)
          /\ gtb'[c].outs = AllFailed
          /\ balance_cache[gtb[c].wallet] # NoEntry)
         => /\ gtb'[c].result = balance_cache[gtb[c].wallet].bal
            /\ gtb'[c].result # NotAvailable
            /\ balance_cache' = balance_cache]_vars

\* A call found an entry at least CACHE_DURATION old, all its sources failed,
\* and it returned the balance of the entry.
C7_witness ==
    \E c \in Ctx :
        /\ gtb[c].pc = "ret"
        /\ gtb[c].outs = AllFailed
        /\ balance_cache[gtb[c].wallet] # NoEntry
        /\ gtb[c].t - balance_cache[gtb[c].wallet].time >= CACHE_DURATION
        /\ gtb[c].result = balance_cache[gtb[c].wallet].bal

\* C8, as stated: every call returns a balance or None, and None exactly when
\* all three sources failed and the cache holds no entry for the key.
\* (Refuted: a source that answers "no account" after the rpc failed is taken
\* as no answer, see C6.)
C8_none_iff_all_failed_no_entry ==
    [][\A c \in Ctx :
         ((EnterStep(c) \/ FetchStep(c)) /\ gtb'[c].pc = "ret")
         => /\ gtb'[c].result \in Balances \cup {0, NotAvailable}
            /\ (gtb'[c].result = NotAvailable)
                  <=> (/\ gtb'[c].outs = AllFailed
                       /\ balance_cache[gtb'[c].wallet] = NoEntry)]_vars

\* C9: a call that finds an entry less than CACHE_DURATION old returns its
\* balance at once, with no source queried and the cache as it was; a call
\* that finds an entry CACHE_DURATION old or older, or none, goes on to the
\* sources.
C9_fresh_entry_served ==
    [][\A c \in Ctx :
         EnterStep(c) =>
            LET e == balance_cache[gtb'[c].wallet]
            IN /\ (e # NoEntry /\ now - e.time < CACHE_DURATION)
                    => /\ gtb'[c].pc = "ret"
                       /\ gtb'[c].how = "hit"
                       /\ gtb'[c].result = e.bal
                       /\ gtb'[c].queried = <<>>
                       /\ balance_cache' = balance_cache
               /\ (e = NoEntry \/ now - e.time >= CACHE_DURATION)
                    => /\ gtb'[c].pc = "fetch"
                       /\ gtb'[c].how # "hit"]_vars

\* A call was served from a fresh entry, and another found an entry exactly
\* CACHE_DURATION old and went on to the sources.
C9_witness ==
    \E c, d \in Ctx :
        /\ gtb[c].pc = "ret"
        /\ gtb[c].how = "hit"
        /\ gtb[c].queried = <<>>
        /\ gtb[c].result = balance_cache[gtb[c].wallet].bal
        /\ gtb[d].pc = "fetch"
        /\ balance_cache[gtb[d].wallet] # NoEntry
        /\ gtb[d].t - balance_cache[gtb[d].wallet].time = CACHE_DURATION

C11_result_and_cache_are_the_source_value ==
    [][\A c \in Ctx :
         FetchStep(c) =>
            \A i \in DOMAIN gtb'[c].outs :
                (/\ gtb'[c].outs[i] \in {"ok", "noaccount"}
                 /\ \A j \in 1..(i - 1) : gtb'[c].outs[j] = "fail")
                => LET v == IF gtb'[c].outs[i] = "ok"
                            THEN gtb'[c].vals[i] ELSE 0
                   IN /\ gtb'[c].result = v
                      /\ balance_cache'[gtb[c].wallet] =
                             [bal |-> v, time |-> gtb[c].t]]_vars

\* C12, as stated: the stamp of a key's cache entry never decreases, however
\* the calls of the two threads interleave. (Refuted: a call stamps its write
\* with the time it read at its start, so a call that started earlier and
\* finishes later puts an older stamp over a newer one.)
C12_stamp_never_decreases ==
    [][\A w \in Wallets :
         balance_cache[w] # NoEntry
            => balance_cache'[w].time >= balance_cache[w].time]_vars

\* C13: in a call that missed the cache, a source that failed (HTTP 429,
\* another non-200 status, a malformed body or an exception) is not queried
\* again, and the next source in the order is queried in the same call: the
\* sources queried are an initial part of rpc, birdeye, solscan, one outcome
\* each, and a failed source is the last one queried only if it is solscan.
C13_failed_source_skipped_not_retried ==
    \A c \in Ctx :
        (gtb[c].pc = "ret" /\ gtb[c].how # "hit") =>
            /\ gtb[c].queried # <<>>
            /\ Len(gtb[c].queried) <= Len(Sources)
            /\ gtb[c].queried = SubSeq(Sources, 1, Len(gtb[c].queried))
            /\ Len(gtb[c].outs) = Len(gtb[c].queried)
            /\ \A i \in DOMAIN gtb[c].outs :
                   (gtb[c].outs[i] = "fail" /\ i < Len(Sources))
                       => /\ Len(gtb[c].queried) > i
                          /\ gtb[c].queried[i + 1] = Sources[i + 1]

\* The rpc and birdeye failed, and solscan was asked and gave the balance.
C13_witness ==
    \E c \in Ctx :
        /\ gtb[c].pc = "ret"
        /\ gtb[c].queried = Sources
        /\ gtb[c].outs = <<"fail", "fail", "ok">>
        /\ gtb[c].how = "fetched"
        /\ gtb[c].result = gtb[c].vals[3]

\* C14, as stated: in every sweep a user with a wallet whose balance is
\* available and below MIN_TOKEN_AMOUNT is sent a message, and a user at or
\* above the threshold is sent none. (Refuted: the job creates the
\* send_message coroutine and never awaits it, so no message is sent.)
C14_sweep_notifies_short_users ==
    (sched.pc = "sweep" /\ sched.cur # 0 /\ sched.bal # NotAvailable)
        => (sched.bal < MIN_TOKEN_AMOUNT
               <=> Effect("message", sched.cur) \in sched.effects)

\* The users the audit would find below the threshold at this moment: those
\* with a wallet whose fresh cache entry, which get_token_balance would
\* return, is below MIN_TOKEN_AMOUNT.
ShortNow ==
    {u \in Users :
        LET w == load_users(users_file)[u]
        IN /\ w \in Wallets
           /\ balance_cache[w] # NoEntry
           /\ now - balance_cache[w].time < CACHE_DURATION
           /\ balance_cache[w].bal < MIN_TOKEN_AMOUNT}

\* C15, as stated: when a cycle of the audit ends, an alert to the admin has
\* been emitted for every registered user whose available balance is below
\* MIN_TOKEN_AMOUNT. (Refuted: the scheduler calls the coroutine function as a
\* plain job, so its body never runs and no alert is emitted.)
C15_audit_alerts_short_users ==
    [][(sched.pc = "audit_coroutine" /\ sched'.pc = "idle")
       => \A u \in ShortNow : Effect("alert", u) \in sched.effects]_vars

\* C16: no step of the scheduler thread, in either job and over any number of
\* cycles, writes the users file or makes Telegram ban or remove anybody: what
\* the thread does is create notifications and update the balance cache.
C16_jobs_never_remove_or_write ==
    [][sched' # sched
       => /\ users_file' = users_file
          /\ \A e \in sched'.effects : e.kind \in {"message", "alert"}
          /\ h' = h
          /\ ev' = ev]_vars

\* The sweep has dealt with a user below the threshold: the coroutine of the
\* notification exists and nobody was banned.
C16_witness ==
    /\ sched.pc = "sweep"
    /\ sched.cur # 0
    /\ Short(sched.bal)
    /\ sched.cur \in sched.coros
    /\ \A e \in sched.effects : e.kind # "ban"

C18_sweep_reaches_every_user ==
    sched.pc \notin {"sweep", "sweep_balance"}
        => \A i \in DOMAIN sched.todo : sched.todo[i].wallet \notin Wallets

\* C19, as stated: every evaluation that ends in a grant or a deny, from
\* whichever handler, comes with an attempt to notify the admin, made by the
\* evaluation or by the handler. (Refuted: on the grant path only the
\* channel-join handler writes to the admin.)
C19_admin_always_notified ==
    (/\ h.pc = "return"
     /\ ev.pc = "ret"
     /\ ev.why \in {"Access granted", "Insufficient tokens"})
    => (ev.admin # "none" \/ h.admin # "none")

C21_record_never_deleted ==
    [][\A u \in Users :
          load_users(users_file)[u] \in Wallets
             => load_users(users_file')[u] \in Wallets]_vars

\* C22: load_users never fails on a missing or corrupted users file: of a file
\* that does not hold a JSON object it returns the empty dict, without
\* raising, and it leaves the file as it is.
C22_load_users_never_fails ==
    [][(h'.kind = "load_users" /\ users_file.kind # "dict")
          => /\ h'.out = "returned"
             /\ h'.users = EmptyMap
             /\ users_file' = users_file]_vars

\* C22 for the files whose bytes are text: missing, not JSON, JSON that is not
\* an object.
C22_load_users_of_text ==
    [][(h'.kind = "load_users" /\ users_file.kind \in {"missing", "invalid", "nondict"})
          => /\ h'.out = "returned"
             /\ h'.users = EmptyMap
             /\ users_file' = users_file]_vars

\* C23: round trip: load_users right after save_users returns the registry
\* that was saved, the same users with the same wallets.
C23_save_then_load_is_the_snapshot ==
    [][(h.kind = "save_users" /\ h'.kind = "load_users")
          => /\ h'.out = "returned"
             /\ h'.users = h.users]_vars

C23_witness ==
    /\ h.pc = "round_trip"
    /\ h.out = "returned"
    /\ \A u \in Users : h.users[u] \in Wallets
    /\ \E u, v \in Users : h.users[u] # h.users[v]

\* C25: is_valid_solana_address returns true if and only if the input has
\* exactly 44 characters and each of them is a base58 character: a digit from 1
\* to 9, a capital other than I and O, or a small letter other than l. For the
\* empty string and for None it returns false.
C25_valid_iff_44_base58_characters ==
    h.kind = "is_valid_solana_address"
       => LET alphabet == ((49..57) \cup (65..90) \cup (97..122)) \ {73, 79, 108}
              shape == Shape[h.text]
          IN /\ h.out \in {"True", "False"}
             /\ h.out = "True"
                   <=> /\ h.text # None
                       /\ shape.len = 44
                       /\ \A c \in shape.chars : c \in alphabet
             /\ h.text \in {"empty", None} => h.out = "False"

C25_witness ==
    /\ h.kind = "is_valid_solana_address"
    /\ h.text = "smallL"
    /\ h.out = "False"

\* C24: a text that fails the address validation never reaches the balance
\* oracle and is never saved: handle_message answers it without a call of
\* get_token_balance and leaves the users file and the balance cache as they
\* were; no call of get_token_balance a handler makes and no write of the users
\* file is for an address that is not 44 base58 characters.
C24_invalid_address_stops_at_validation ==
    [][/\ (h.pc = "idle" /\ h'.kind = "message" /\ awaiting[h'.user])
            => \/ /\ Shape[h'.text].len = ADDRESS_LENGTH
                  /\ Shape[h'.text].chars \subseteq Base58
               \/ /\ h'.pc = "return"
                  /\ h'.out = "invalid"
                  /\ gtb' = gtb
                  /\ users_file' = users_file
                  /\ balance_cache' = balance_cache
       /\ (gtb'["loop"].wallet # gtb["loop"].wallet /\ gtb'["loop"].pc # "idle")
            => /\ Shape[gtb'["loop"].wallet].len = ADDRESS_LENGTH
               /\ Shape[gtb'["loop"].wallet].chars \subseteq Base58
       /\ users_file' # users_file
            => /\ Shape[h.text].len = ADDRESS_LENGTH
               /\ Shape[h.text].chars \subseteq Base58]_vars

C24_witness ==
    /\ h.kind = "message"
    /\ h.pc = "return"
    /\ h.out = "invalid"
    /\ h.text = "zero"
    /\ load_users(users_file)[h.user] \in Wallets
    /\ \E w \in Wallets : balance_cache[w] # NoEntry

\* C26: a notification that fails never rolls back a decision or a saved
\* wallet: whether the invite link, the admin alert or the removal raised, the
\* evaluation returns granted exactly for a balance at or above the threshold;
\* and when the handler's reply fails, the evaluation's result and the users
\* file stay as they were, the wallet a registration saved with them.
C26_delivery_failure_keeps_decision_and_wallet ==
    [][/\ (ev.pc = "balance" /\ ev'.pc = "ret" /\ ev'.balance # NotAvailable)
            => ev'.granted = (ev'.balance >= MIN_TOKEN_AMOUNT)
       /\ (h.pc = "evaluation" /\ h'.pc = "return")
            => /\ ev' = ev
               /\ users_file' = users_file
               /\ h.kind = "message"
                     => load_users(users_file')[h.user] = h.text]_vars

C26_witness ==
    /\ h.kind = "message"
    /\ h.pc = "return"
    /\ h.out = "undelivered"
    /\ ev.granted
    /\ ev.invite = "raised"
    /\ load_users(users_file)[h.user] = h.text

\* C27: handle_message writes the users file only when the sender is awaiting
\* a wallet, the text is a valid address and the balance fetch for it gave a
\* balance, which is when the cache holds an entry for it after the fetch. It
\* then writes the text as the sender's wallet, in place of any earlier one,
\* and every other record as it was. In every other case the users file is
\* left unchanged.
C27_handle_message_writes_only_verified_wallet ==
    [][IF h.pc = "message_verify" /\ h'.pc # "message_verify"
       THEN /\ awaiting[h.user]
            /\ is_valid_solana_address(h.text)
            /\ IF balance_cache'[h.text] # NoEntry
               THEN /\ users_file'.kind = "dict"
                    /\ load_users(users_file')[h.user] = h.text
                    /\ \A v \in Users \ {h.user} :
                          load_users(users_file')[v] = load_users(users_file)[v]
               ELSE users_file' = users_file
       ELSE users_file' = users_file]_vars

C27_witness ==
    /\ h.kind = "message"
    /\ h.pc = "return"
    /\ h.out = "verify_failed"
    /\ load_users(users_file)[h.user] \in Wallets \ {h.text}

\* C28: the scheduler keeps running for the life of the process: whatever
\* went wrong at a user of a sweep (no balance, a failed notification, a
\* malformed record), the scheduler thread has not ended, so that a later
\* sweep and a later audit can fire.
C28_scheduler_keeps_running ==
    sched.pc # "dead"

\* C30: a sweep that loads the users file while a registration is saving it
\* works on the whole registry as it was before the write or on the whole
\* registry as it is after it, never on an empty or partial one.
C30_sweep_loads_whole_snapshot ==
    [][(sched.pc = "idle" /\ sched'.pc = "sweep" /\ h.pc = "save_users")
          => \/ sched'.todo = Items(h.users, 1)
             \/ sched'.todo = Items(Registered(h.users, h.user, h.text), 1)]_vars

\* C29: in checkme_command and in the registration of handle_message the reply
\* reports VIP access as granted if and only if the balance the handler
\* fetched itself, which the reply reports, is at or above the threshold.
C29_reply_agrees_with_reported_balance ==
    (/\ h.pc = "return"
     /\ h.kind \in {"checkme", "message"}
     /\ h.out \in {"granted", "denied"})
        => (h.out = "granted" <=> h.bal >= MIN_TOKEN_AMOUNT)

\* C31: when the evaluation has returned on the insufficient-balance path the
\* user is not left banned from the VIP channel: every ban_chat_member that
\* took effect is followed by an unban_chat_member for the same user that
\* succeeded.
C31_ban_followed_by_successful_unban ==
    ev.pc = "ret"
       => \A i \in DOMAIN ev.ops :
             ev.ops[i] = "ban_ok"
                => \E j \in DOMAIN ev.ops : j > i /\ ev.ops[j] = "unban_ok"

====
